---- MODULE Spec2Model ----
(***************************************************************************)
(* State-machine model of the cachingmap crate.                            *)
(*                                                                         *)
(*   src/src/lib.rs    CachingMap<K, V>, CachedValue<'a, T>                *)
(*   src/src/boxed.rs  AsyncCachingMap<K, V>                               *)
(*                                                                         *)
(* Both maps are a HashMap<K, Box<V>> behind an UnsafeCell.  The model     *)
(* keeps the map as a function from the present keys to the address of     *)
(* the key's box, and the boxes as a heap from live addresses to values.   *)
(* A reference handed to a caller is an address; it dangles once its box   *)
(* has been dropped.                                                       *)
(*                                                                         *)
(* A producer closure runs between the lookup and the insertion of the     *)
(* call it was given to, and it may itself use the map through the shared  *)
(* handle.  A call that invokes its producer is therefore two steps (the   *)
(* lookup that misses and invokes the producer; the producer's return and  *)
(* what the call does with the result) and the calls whose producers are   *)
(* running are kept on a stack.                                            *)
(***************************************************************************)
EXTENDS Integers, Sequences, FiniteSets, TLC

VARIABLES
    cache,      \* CachingMap.cache: present key -> address of its Box<V>
    acache,     \* AsyncCachingMap.cache: present key -> address of its Box<V>
    heap,       \* live boxes: address -> value
    stack,      \* calls whose producer is running, innermost last
    last,       \* what the call that returned last gave back
    first,      \* per key of the CachingMap: the reference and value its insertion returned
    invoked,    \* keys a producer has been invoked for since creation / the key's last removal
    lhs,        \* left operand of a CachedValue comparison
    rhs,        \* right operand of a CachedValue comparison
    eq,         \* result of lhs == rhs ("true" or "false"), "none" before the comparison
    full_clone, \* AsyncCachingMap.full_clone
    cloned,     \* the map made by clone(): whether it was made, its cache, its full_clone
    thr         \* per execution context sharing the CachingMap: where it is in cache(key, value)

vars == <<cache, acache, heap, stack, last, first, invoked, lhs, rhs, eq, full_clone, cloned, thr>>

\* what the CachingMap operations leave alone
asyncVars == <<acache, lhs, rhs, eq, full_clone, cloned, thr>>
\* what the AsyncCachingMap operations leave alone
syncVars == <<cache, first, invoked, lhs, rhs, eq, full_clone, cloned, thr>>

\* ---------------------------------------------------------------- bounds
MaxKey == 2
MaxVal == 2
\* producers running at once on the CachingMap / on the AsyncCachingMap (a
\* producer of cache_owned can only insert through a cache_owned of its own)
MaxDepth == 1
MaxAsyncDepth == 2
\* entries the caller puts into a clone
MaxCloneLen == 1

Keys == 1..MaxKey
Values == 1..MaxVal
\* room for the boxes of two full maps (a map and its clone, or the two
\* kinds of map side by side); an insertion that replaces a box allocates the
\* new box before the old one is dropped
Cells == 1..(2 * MaxKey)

\* the execution contexts that share one CachingMap
Contexts == {"a", "b"}

\* ---------------------------------------------------------------- values
None == 0

StoreRef(c) == <<"store", c>>
ExtRef(e) == <<"ext", e>>
NoRef == <<"none", None>>

\* &map[&key]: Index::index panics when the key is not in the map
PanicRef == <<"panic", None>>
Index(map, key) == IF key \in DOMAIN map THEN StoreRef(map[key]) ELSE PanicRef

\* CachedValue::New(&map[&key]) is built only if the index did not panic
NewOf(ref) == IF ref = PanicRef THEN "Panic" ELSE "New"

\* The value a reference points at.  Data borrowed from outside the map is
\* owned by the caller: external object e holds the value e.
Deref(ref, hp) ==
    IF ref[1] = "store" THEN (IF ref[2] \in DOMAIN hp THEN hp[ref[2]] ELSE None)
    ELSE IF ref[1] = "ext" THEN ref[2]
    ELSE None

\* HashMap::get through Deref: the address of the key's box, or None
get(map, key) == IF key \in DOMAIN map THEN map[key] ELSE None

\* Faulty variant of HashMap::insert: the entry is not stored
HashMapInsert_lost(map, key, c) == map

\* HashMap::insert: the entry for key now holds box c (any earlier box of
\* the key is given back to be dropped)
HashMapInsert(map, key, c) ==
    [k \in DOMAIN map \cup {key} |-> IF k = key THEN c ELSE map[k]]

\* HashMap::remove
HashMapRemove(map, key) == [k \in DOMAIN map \ {key} |-> map[k]]

\* The heap after dropping the boxes at the addresses in cs
Drop(hp, cs) == [c \in DOMAIN hp \ cs |-> hp[c]]

\* The allocator is first-fit: a new box gets the lowest free address, so the
\* address of a dropped box is the next one to be reused
Alloc(hp) == CHOOSE c \in Cells \ DOMAIN hp : \A d \in Cells \ DOMAIN hp : c <= d

\* Box::from(value) placed at the free address c
BoxFrom(hp, c, value) == [a \in DOMAIN hp \cup {c} |-> IF a = c THEN value ELSE hp[a]]

\* A returned CachedValue (or Option): the call, its tag, its reference, and
\* the value the reference points at when it is returned
Res(op, key, arg, tag, ref, hp, re) ==
    [op |-> op, key |-> key, arg |-> arg, tag |-> tag, ref |-> ref,
     val |-> Deref(ref, hp), re |-> re]

EmptyMap == [k \in {} |-> None]

\* no clone has been made
NoClone == [made |-> FALSE, cache |-> EmptyMap, full_clone |-> FALSE]

\* an execution context that is not inside a call
Idle == [pc |-> "idle", key |-> None, value |-> None, tag |-> "", ref |-> NoRef]

Top == stack[Len(stack)]
Pop == SubSeq(stack, 1, Len(stack) - 1)

\* The exclusive operation that took key out of the CachingMap, when it is the
\* last call that returned ("" otherwise)
After(key) ==
    IF last.op = "remove" /\ last.key = key /\ last.tag = "Some" THEN "remove"
    ELSE IF last.op = "clear" /\ key \in last.arg THEN "clear"
    ELSE ""

\* ---------------------------------------------------------------- Init
\* CachingMap::new() and AsyncCachingMap::new(): empty HashMaps
Init ==
    /\ cache = EmptyMap
    /\ acache = EmptyMap
    /\ heap = EmptyMap
    /\ stack = <<>>
    /\ last = Res("new", None, None, "", NoRef, EmptyMap, "")
    /\ first = EmptyMap
    /\ invoked = {}
    /\ lhs = [tag |-> "New", ref |-> NoRef]
    /\ rhs = [tag |-> "New", ref |-> NoRef]
    /\ eq = "none"
    /\ full_clone = TRUE
    /\ cloned = NoClone
    /\ thr = [t \in Contexts |-> Idle]

\* ---------------------------------------------------------------- CachingMap, shared access
\* Faulty variant of get: the entry is taken out of the map
Get_take(key) ==
    /\ last' = IF get(cache, key) # None
               THEN Res("get", key, None, "Some", StoreRef(get(cache, key)), heap, "")
               ELSE Res("get", key, None, "None", NoRef, heap, "")
    /\ cache' = HashMapRemove(cache, key)
    /\ first' = HashMapRemove(first, key)
    /\ UNCHANGED <<heap, stack, invoked, asyncVars>>

\* map.get(&key) by the caller (or by a running producer)
Get(key) ==
    /\ last' = IF get(cache, key) # None
               THEN Res("get", key, None, "Some", StoreRef(get(cache, key)), heap, "")
               ELSE Res("get", key, None, "None", NoRef, heap, "")
    /\ UNCHANGED <<cache, heap, stack, first, invoked, asyncVars>>

\* map.len()
len ==
    /\ last' = [Res("len", None, None, "", NoRef, heap, "") EXCEPT !.val = Cardinality(DOMAIN cache)]
    /\ UNCHANGED <<cache, heap, stack, first, invoked, asyncVars>>

\* Faulty variant of cache: no lookup, the value is always inserted and the
\* box of a present key is replaced and dropped
cache_body_overwrite(op, key, value) ==
    /\ Cells \ DOMAIN heap # {}
    /\ heap' = Drop(BoxFrom(heap, Alloc(heap), value), {get(cache, key)})
    /\ cache' = HashMapInsert(cache, key, Alloc(heap))
    /\ last' = Res(op, key, value, "New", StoreRef(get(cache', key)), heap', After(key))
    /\ first' = IF key \in DOMAIN first THEN first
                ELSE [k \in DOMAIN first \cup {key} |->
                        IF k = key THEN [ref |-> last'.ref, val |-> value] ELSE first[k]]

\* The body of CachingMap::cache(key, value), reported as the result of op
cache_body(op, key, value) ==
    IF get(cache, key) # None
    THEN /\ last' = Res(op, key, value, "Old", StoreRef(get(cache, key)), heap, After(key))
         /\ UNCHANGED <<cache, heap, first>>
    ELSE /\ Cells \ DOMAIN heap # {}
         /\ heap' = BoxFrom(heap, Alloc(heap), value)
         /\ cache' = HashMapInsert(cache, key, Alloc(heap))
         /\ last' = Res(op, key, value, NewOf(Index(cache', key)), Index(cache', key), heap', After(key))
         /\ first' = IF key \in DOMAIN first THEN first
                     ELSE [k \in DOMAIN first \cup {key} |->
                             IF k = key THEN [ref |-> last'.ref, val |-> value] ELSE first[k]]

\* CachingMap::cache(key, value)
Cache(key, value) ==
    /\ cache_body("cache", key, value)
    /\ UNCHANGED <<stack, invoked, asyncVars>>

\* Faulty variant of cached: a stored value is handed back as New
CachedHit_new(key) ==
    /\ get(cache, key) # None
    /\ last' = Res("cached", key, None, "New", StoreRef(get(cache, key)), heap, After(key))
    /\ UNCHANGED <<cache, heap, stack, first, invoked, asyncVars>>

\* CachingMap::cached(key, f), key present: Old, f is not called
CachedHit(key) ==
    /\ get(cache, key) # None
    /\ last' = Res("cached", key, None, "Old", StoreRef(get(cache, key)), heap, After(key))
    /\ UNCHANGED <<cache, heap, stack, first, invoked, asyncVars>>

\* Faulty variant of cached: f(&key) is evaluated before the lookup
CachedMiss_eager(key) ==
    /\ Len(stack) < MaxDepth
    /\ stack' = Append(stack, [op |-> "cached", key |-> key])
    /\ invoked' = invoked \cup {key}
    /\ UNCHANGED <<cache, heap, last, first, asyncVars>>

\* CachingMap::cached(key, f), key absent: f(&key) starts running
CachedMiss(key) ==
    /\ get(cache, key) = None
    /\ Len(stack) < MaxDepth
    /\ stack' = Append(stack, [op |-> "cached", key |-> key])
    /\ invoked' = invoked \cup {key}
    /\ UNCHANGED <<cache, heap, last, first, asyncVars>>

\* Faulty variant of cached: the producer's value is inserted directly, with
\* no second lookup
CachedReturn_insert(value) ==
    /\ stack # <<>>
    /\ Top.op = "cached"
    /\ cache_body_overwrite("cached", Top.key, value)
    /\ stack' = Pop
    /\ UNCHANGED <<invoked, asyncVars>>

\* f(&key) returns value: self.cache(key, value)
CachedReturn(value) ==
    /\ stack # <<>>
    /\ Top.op = "cached"
    /\ cache_body("cached", Top.key, value)
    /\ stack' = Pop
    /\ UNCHANGED <<invoked, asyncVars>>

\* Faulty variant of cached_cow: a hit hands back a reference to a copy of the
\* stored value
CachedCowHit_copy(key) ==
    /\ get(cache, key) # None
    /\ last' = Res("cached_cow", key, None, "Old", ExtRef(heap[cache[key]]), heap, After(key))
    /\ UNCHANGED <<cache, heap, stack, first, invoked, asyncVars>>

\* CachingMap::cached_cow(key, f), key present: Old, f is not called
CachedCowHit(key) ==
    /\ get(cache, key) # None
    /\ last' = Res("cached_cow", key, None, "Old", StoreRef(get(cache, key)), heap, After(key))
    /\ UNCHANGED <<cache, heap, stack, first, invoked, asyncVars>>

\* Faulty variant of cached_cow: f(&key) is evaluated before the lookup
CachedCowMiss_eager(key) ==
    /\ Len(stack) < MaxDepth
    /\ stack' = Append(stack, [op |-> "cached_cow", key |-> key])
    /\ invoked' = invoked \cup {key}
    /\ UNCHANGED <<cache, heap, last, first, asyncVars>>

\* CachingMap::cached_cow(key, f), key absent: f(&key) starts running
CachedCowMiss(key) ==
    /\ get(cache, key) = None
    /\ Len(stack) < MaxDepth
    /\ stack' = Append(stack, [op |-> "cached_cow", key |-> key])
    /\ invoked' = invoked \cup {key}
    /\ UNCHANGED <<cache, heap, last, first, asyncVars>>

\* Faulty variant of cached_cow: a borrowed value is cloned into the cache
CachedCowBorrowed_caches(e) ==
    /\ stack # <<>>
    /\ Top.op = "cached_cow"
    /\ cache_body("cached_cow", Top.key, e)
    /\ stack' = Pop
    /\ UNCHANGED <<invoked, asyncVars>>

\* f(&key) returns Cow::Borrowed(e): Ext(e), the map is not touched
CachedCowBorrowed(e) ==
    /\ stack # <<>>
    /\ Top.op = "cached_cow"
    /\ last' = Res("cached_cow", Top.key, e, "Ext", ExtRef(e), heap, After(Top.key))
    /\ stack' = Pop
    /\ UNCHANGED <<cache, heap, first, invoked, asyncVars>>

\* Faulty variant of cached_cow: an owned value is handed back without being cached
CachedCowOwned_ext(value) ==
    /\ stack # <<>>
    /\ Top.op = "cached_cow"
    /\ last' = Res("cached_cow", Top.key, value, "Ext", ExtRef(value), heap, After(Top.key))
    /\ stack' = Pop
    /\ UNCHANGED <<cache, heap, first, invoked, asyncVars>>

\* Faulty variant of cached_cow: an owned value is inserted directly, with no
\* second lookup
CachedCowOwned_insert(value) ==
    /\ stack # <<>>
    /\ Top.op = "cached_cow"
    /\ cache_body_overwrite("cached_cow", Top.key, value)
    /\ stack' = Pop
    /\ UNCHANGED <<invoked, asyncVars>>

\* f(&key) returns Cow::Owned(value): self.cache(key, value)
CachedCowOwned(value) ==
    /\ stack # <<>>
    /\ Top.op = "cached_cow"
    /\ cache_body("cached_cow", Top.key, value)
    /\ stack' = Pop
    /\ UNCHANGED <<invoked, asyncVars>>

\* ---------------------------------------------------------------- CachingMap, exclusive access
\* DerefMut needs &mut self: no call on the map is running.

\* Faulty variant of DerefMut: the exclusive handle is not the stored map,
\* so the removal does not reach it
Remove_stale(key) ==
    /\ stack = <<>>
    /\ last' = Res("remove", key, None, IF get(cache, key) # None THEN "Some" ELSE "None",
                   NoRef, heap, "")
    /\ UNCHANGED <<cache, heap, first, invoked, stack, asyncVars>>

\* map.remove(&key)
Remove(key) ==
    /\ stack = <<>>
    /\ cache' = HashMapRemove(cache, key)
    /\ heap' = Drop(heap, {get(cache, key)})
    /\ last' = Res("remove", key, None, IF get(cache, key) # None THEN "Some" ELSE "None",
                   NoRef, heap, "")
    /\ first' = HashMapRemove(first, key)
    /\ invoked' = invoked \ {key}
    /\ UNCHANGED <<stack, asyncVars>>

\* Faulty variant of clear: the entry of the greatest key survives
Clear_partial ==
    /\ stack = <<>>
    /\ cache' = [k \in {j \in DOMAIN cache : \A i \in DOMAIN cache : i <= j} |-> cache[k]]
    /\ heap' = Drop(heap, {cache[k] : k \in DOMAIN cache \ DOMAIN cache'})
    /\ last' = Res("clear", None, DOMAIN cache \ DOMAIN cache', "", NoRef, heap, "")
    /\ first' = [k \in DOMAIN cache' |-> first[k]]
    /\ invoked' = {}
    /\ UNCHANGED <<stack, asyncVars>>

\* map.clear()
Clear ==
    /\ stack = <<>>
    /\ cache' = EmptyMap
    /\ heap' = Drop(heap, {cache[k] : k \in DOMAIN cache})
    /\ last' = Res("clear", None, DOMAIN cache, "", NoRef, heap, "")   \* arg: the keys dropped
    /\ first' = EmptyMap
    /\ invoked' = {}
    /\ UNCHANGED <<stack, asyncVars>>

Next ==
    \/ \E key \in Keys : Get(key)
    \/ len
    \/ \E key \in Keys, value \in Values : Cache(key, value)
    \/ \E key \in Keys : CachedHit(key)
    \/ \E key \in Keys : CachedMiss(key)
    \/ \E value \in Values : CachedReturn(value)
    \/ \E key \in Keys : CachedCowHit(key)
    \/ \E key \in Keys : CachedCowMiss(key)
    \/ \E e \in Values : CachedCowBorrowed(e)
    \/ \E value \in Values : CachedCowOwned(value)
    \/ \E key \in Keys : Remove(key)
    \/ Clear

Spec == Init /\ [][Next]_vars

\* ---------------------------------------------------------------- AsyncCachingMap
\* map.get(&key) by the caller (or by a running producer)
AsyncGet(key) ==
    /\ last' = IF get(acache, key) # None
               THEN Res("get", key, None, "Some", StoreRef(get(acache, key)), heap, "")
               ELSE Res("get", key, None, "None", NoRef, heap, "")
    /\ UNCHANGED <<acache, heap, stack, syncVars>>

\* AsyncCachingMap::cache_owned(key, f), key present: Old, f is not called
CacheOwnedHit(key) ==
    /\ get(acache, key) # None
    /\ last' = Res("cache_owned", key, None, "Old", StoreRef(get(acache, key)), heap, "")
    /\ UNCHANGED <<acache, heap, stack, syncVars>>

\* AsyncCachingMap::cache_owned(key, f), key absent: f(&key) starts running
CacheOwnedMiss(key) ==
    /\ get(acache, key) = None
    /\ Len(stack) < MaxAsyncDepth
    /\ stack' = Append(stack, [op |-> "cache_owned", key |-> key])
    /\ UNCHANGED <<acache, heap, last, syncVars>>

\* Faulty variant of cache_owned: a borrowed value is cloned into the cache
CacheOwnedBorrowed_caches(e) ==
    /\ stack # <<>>
    /\ Top.op = "cache_owned"
    /\ Cells \ DOMAIN heap # {}
    /\ heap' = Drop(BoxFrom(heap, Alloc(heap), e), {get(acache, Top.key)})
    /\ acache' = HashMapInsert(acache, Top.key, Alloc(heap))
    /\ last' = Res("cache_owned", Top.key, e, "New", StoreRef(Alloc(heap)), heap', "")
    /\ stack' = Pop
    /\ UNCHANGED syncVars

\* f(&key) returns Cow::Borrowed(e): Ext(e), the map is not touched
CacheOwnedBorrowed(e) ==
    /\ stack # <<>>
    /\ Top.op = "cache_owned"
    /\ last' = Res("cache_owned", Top.key, e, "Ext", ExtRef(e), heap, "")
    /\ stack' = Pop
    /\ UNCHANGED <<acache, heap, syncVars>>

\* f(&key) returns Cow::Owned(value): map.insert(key, Box::new(value)) with
\* no second lookup, then New(&map[&key]); insert drops the box it replaces
CacheOwnedOwned(value) ==
    /\ stack # <<>>
    /\ Top.op = "cache_owned"
    /\ Cells \ DOMAIN heap # {}
    /\ heap' = Drop(BoxFrom(heap, Alloc(heap), value), {get(acache, Top.key)})
    /\ acache' = HashMapInsert(acache, Top.key, Alloc(heap))
    /\ last' = Res("cache_owned", Top.key, value, NewOf(Index(acache', Top.key)),
                   Index(acache', Top.key), heap', "")
    /\ stack' = Pop
    /\ UNCHANGED syncVars

\* map.remove(&key), through DerefMut
AsyncRemove(key) ==
    /\ stack = <<>>
    /\ acache' = HashMapRemove(acache, key)
    /\ heap' = Drop(heap, {get(acache, key)})
    /\ last' = Res("remove", key, None, IF get(acache, key) # None THEN "Some" ELSE "None",
                   NoRef, heap, "")
    /\ UNCHANGED <<stack, syncVars>>

\* map.clear(), through DerefMut
AsyncClear ==
    /\ stack = <<>>
    /\ acache' = EmptyMap
    /\ heap' = Drop(heap, {acache[k] : k \in DOMAIN acache})
    /\ last' = Res("clear", None, DOMAIN acache, "", NoRef, heap, "")
    /\ UNCHANGED <<stack, syncVars>>

AsyncExclusive ==
    \/ \E key \in Keys : AsyncRemove(key)
    \/ AsyncClear

NextAsync ==
    \/ \E key \in Keys : AsyncGet(key)
    \/ \E key \in Keys : CacheOwnedHit(key)
    \/ \E key \in Keys : CacheOwnedMiss(key)
    \/ \E e \in Values : CacheOwnedBorrowed(e)
    \/ \E value \in Values : CacheOwnedOwned(value)
    \/ AsyncExclusive

SpecAsync == Init /\ [][NextAsync]_vars

\* ---------------------------------------------------------------- CachedValue
Tags == {"Ext", "New", "Old"}

\* a CachedValue: a tag and a reference
CachedValue == [tag : Tags, ref : {StoreRef(c) : c \in Cells} \cup {ExtRef(e) : e \in Values}]

\* Faulty variant of the comparison: the tag is not compared
CachedValueEq_untagged(x, y) == Deref(x.ref, heap) = Deref(y.ref, heap)

\* #[derive(PartialEq)] on CachedValue: the same variant, and equal payloads;
\* the payloads are &T, which compare as the values they point at
CachedValueEq(x, y) ==
    /\ x.tag = y.tag
    /\ Deref(x.ref, heap) = Deref(y.ref, heap)

\* any two CachedValues over any live boxes
InitEq ==
    /\ cache = EmptyMap
    /\ acache = EmptyMap
    /\ heap \in [Cells -> Values]
    /\ stack = <<>>
    /\ last = Res("new", None, None, "", NoRef, EmptyMap, "")
    /\ first = EmptyMap
    /\ invoked = {}
    /\ lhs \in CachedValue
    /\ rhs \in CachedValue
    /\ eq = "none"
    /\ full_clone = TRUE
    /\ cloned = NoClone
    /\ thr = [t \in Contexts |-> Idle]

\* lhs == rhs
Compare ==
    /\ eq = "none"
    /\ eq' = IF CachedValueEq(lhs, rhs) THEN "true" ELSE "false"
    /\ UNCHANGED <<cache, acache, heap, stack, last, first, invoked, lhs, rhs, full_clone, cloned, thr>>

NextEq == Compare

SpecEq == InitEq /\ [][NextEq]_vars

\* ---------------------------------------------------------------- CachingMap shared by two execution contexts
\* CachingMap is not Sync, so safe code cannot do this; the type's doc says
\* what happens if the map is shared all the same.  Each context runs
\* cache(key, value); the lookup, the insertion and the indexing are separate
\* steps, and the steps of the two contexts interleave.

\* self.get(&key): Some(v) => Old(v), the call returns; None => go on to insert
RaceLookup(t, key, value) ==
    /\ thr[t].pc = "idle"
    /\ thr' = [thr EXCEPT ![t] =
                IF get(cache, key) # None
                THEN [pc |-> "done", key |-> key, value |-> value, tag |-> "Old",
                      ref |-> StoreRef(get(cache, key))]
                ELSE [pc |-> "insert", key |-> key, value |-> value, tag |-> "", ref |-> NoRef]]
    /\ UNCHANGED <<cache, acache, heap, stack, last, first, invoked, lhs, rhs, eq, full_clone, cloned>>

\* Faulty variant of the insertion: the entry is only filled if it is vacant
RaceInsert_vacant(t) ==
    /\ thr[t].pc = "insert"
    /\ Cells \ DOMAIN heap # {}
    /\ IF get(cache, thr[t].key) # None
       THEN UNCHANGED <<heap, cache>>
       ELSE /\ heap' = BoxFrom(heap, Alloc(heap), thr[t].value)
            /\ cache' = HashMapInsert(cache, thr[t].key, Alloc(heap))
    /\ thr' = [thr EXCEPT ![t].pc = "index"]
    /\ UNCHANGED <<acache, stack, last, first, invoked, lhs, rhs, eq, full_clone, cloned>>

\* map.insert(key, Box::from(value)): the entry now holds the new box; a box
\* the other context put there in the meantime is replaced and dropped
RaceInsert(t) ==
    /\ thr[t].pc = "insert"
    /\ Cells \ DOMAIN heap # {}
    /\ heap' = Drop(BoxFrom(heap, Alloc(heap), thr[t].value), {get(cache, thr[t].key)})
    /\ cache' = HashMapInsert(cache, thr[t].key, Alloc(heap))
    /\ thr' = [thr EXCEPT ![t].pc = "index"]
    /\ UNCHANGED <<acache, stack, last, first, invoked, lhs, rhs, eq, full_clone, cloned>>

\* CachedValue::New(&map[&key]), the call returns
RaceIndex(t) ==
    /\ thr[t].pc = "index"
    /\ thr' = [thr EXCEPT ![t].pc = "done",
                          ![t].tag = NewOf(Index(cache, thr[t].key)),
                          ![t].ref = Index(cache, thr[t].key)]
    /\ UNCHANGED <<cache, acache, heap, stack, last, first, invoked, lhs, rhs, eq, full_clone, cloned>>

NextRace ==
    \/ \E t \in Contexts, key \in Keys, value \in Values : RaceLookup(t, key, value)
    \/ \E t \in Contexts : RaceInsert(t)
    \/ \E t \in Contexts : RaceIndex(t)

SpecRace == Init /\ [][NextRace]_vars

\* ---------------------------------------------------------------- Clone for CachingMap
\* The boxes of a map
Boxes(map) == {map[k] : k \in DOMAIN map}

\* Faulty variant of clone: the clone is a copy of the HashMap
Clone_copy ==
    /\ cloned' = [made |-> TRUE, cache |-> cache, full_clone |-> FALSE]
    /\ heap' = Drop(heap, Boxes(cloned.cache) \ Boxes(cache))
    /\ last' = Res("clone", None, None, "", NoRef, heap', "")
    /\ UNCHANGED <<cache, acache, stack, first, invoked, lhs, rhs, eq, full_clone, thr>>

\* map.clone(): Self::default(), which is Self::new(); a clone made earlier
\* is dropped, and its boxes with it
Clone ==
    /\ cloned' = [made |-> TRUE, cache |-> EmptyMap, full_clone |-> FALSE]
    /\ heap' = Drop(heap, Boxes(cloned.cache))
    /\ last' = Res("clone", None, None, "", NoRef, heap', "")
    /\ UNCHANGED <<cache, acache, stack, first, invoked, lhs, rhs, eq, full_clone, thr>>

\* The clone is another object, and its boxes are placed apart from the
\* source's: a box of the clone gets the highest free address
AllocTop(hp) == CHOOSE c \in Cells \ DOMAIN hp : \A d \in Cells \ DOMAIN hp : c >= d

\* clone.cache(key, value): CachingMap::cache on the clone
CloneCache(key, value) ==
    /\ cloned.made
    /\ Cardinality(DOMAIN cloned.cache \cup {key}) <= MaxCloneLen
    /\ IF get(cloned.cache, key) # None
       THEN /\ last' = Res("clone.cache", key, value, "Old", StoreRef(get(cloned.cache, key)), heap, "")
            /\ UNCHANGED <<cloned, heap>>
       ELSE /\ Cells \ DOMAIN heap # {}
            /\ heap' = BoxFrom(heap, AllocTop(heap), value)
            /\ cloned' = [cloned EXCEPT !.cache = HashMapInsert(cloned.cache, key, AllocTop(heap))]
            /\ last' = Res("clone.cache", key, value, NewOf(Index(cloned'.cache, key)),
                           Index(cloned'.cache, key), heap', "")
    /\ UNCHANGED <<cache, acache, stack, first, invoked, lhs, rhs, eq, full_clone, thr>>

\* clone.len()
CloneLen ==
    /\ cloned.made
    /\ last' = [Res("clone.len", None, None, "", NoRef, heap, "")
                    EXCEPT !.val = Cardinality(DOMAIN cloned.cache)]
    /\ UNCHANGED <<cache, acache, heap, stack, first, invoked, lhs, rhs, eq, full_clone, cloned, thr>>

NextClone ==
    \/ \E key \in Keys, value \in Values : Cache(key, value)
    \/ Clone
    \/ \E key \in Keys, value \in Values : CloneCache(key, value)
    \/ CloneLen

SpecClone == Init /\ [][NextClone]_vars

\* ---------------------------------------------------------------- Clone for AsyncCachingMap
\* AsyncCachingMap::with_full_clone(b): a new, empty map with the given
\* cloning strategy (the caller lets go of the map it had)
with_full_clone(b) ==
    /\ stack = <<>>
    /\ acache' = EmptyMap
    /\ full_clone' = b
    /\ heap' = Drop(heap, Boxes(acache))
    /\ last' = Res("with_full_clone", None, b, "", NoRef, heap', "")
    /\ UNCHANGED <<cache, stack, first, invoked, lhs, rhs, eq, cloned, thr>>

\* AsyncCachingMap::new() and default(): Self::with_full_clone(true)
AsyncNew ==
    /\ with_full_clone(TRUE)
    /\ last'.op = "with_full_clone"

\* map.set_full_clone(b), through &mut self
set_full_clone(b) ==
    /\ stack = <<>>
    /\ full_clone' = b
    /\ last' = Res("set_full_clone", None, b, "", NoRef, heap, "")
    /\ UNCHANGED <<cache, acache, heap, stack, first, invoked, lhs, rhs, eq, cloned, thr>>

\* HashMap<K, Box<V>>::clone: every key of map, with a new box holding a clone
\* of the key's value; done is the part of the copy made so far
RECURSIVE HashMapClone(_, _)
HashMapClone(map, done) ==
    IF DOMAIN done.cache = DOMAIN map THEN done
    ELSE LET k == CHOOSE j \in DOMAIN map \ DOMAIN done.cache :
                        \A i \in DOMAIN map \ DOMAIN done.cache : j <= i
             c == AllocTop(done.heap)
         IN  HashMapClone(map, [cache |-> HashMapInsert(done.cache, k, c),
                                heap |-> BoxFrom(done.heap, c, done.heap[map[k]])])

\* Faulty variant of clone: the clone is always empty, as for CachingMap
AsyncClone_empty ==
    /\ cloned' = [made |-> TRUE, cache |-> EmptyMap, full_clone |-> full_clone]
    /\ heap' = Drop(heap, Boxes(cloned.cache))
    /\ last' = Res("clone", None, None, "", NoRef, heap', "")
    /\ UNCHANGED <<cache, acache, stack, first, invoked, lhs, rhs, eq, full_clone, thr>>

\* map.clone(): the inner HashMap is cloned if full_clone, and new otherwise;
\* the flag is copied (the caller keeps one clone, an earlier one is dropped)
AsyncClone ==
    /\ Cardinality(Cells \ (DOMAIN heap \ Boxes(cloned.cache))) >= Cardinality(DOMAIN acache)
    /\ LET copy == IF full_clone
                   THEN HashMapClone(acache, [cache |-> EmptyMap,
                                              heap |-> Drop(heap, Boxes(cloned.cache))])
                   ELSE [cache |-> EmptyMap, heap |-> Drop(heap, Boxes(cloned.cache))]
       IN  /\ cloned' = [made |-> TRUE, cache |-> copy.cache, full_clone |-> full_clone]
           /\ heap' = copy.heap
    /\ last' = Res("clone", None, None, "", NoRef, heap', "")
    /\ UNCHANGED <<cache, acache, stack, first, invoked, lhs, rhs, eq, full_clone, thr>>

\* a single caller whose producers do not use the map
NextAsyncClone ==
    \/ AsyncNew
    \/ \E b \in BOOLEAN : with_full_clone(b)
    \/ \E b \in BOOLEAN : set_full_clone(b)
    \/ \E key \in Keys : stack = <<>> /\ CacheOwnedMiss(key)
    \/ \E value \in Values : CacheOwnedOwned(value)
    \/ AsyncClone

SpecAsyncClone == Init /\ [][NextAsyncClone]_vars

\* ---------------------------------------------------------------- the two maps side by side
\* A single caller keeps a CachingMap and an AsyncCachingMap and makes every
\* call on both, cached_cow(key, f) on the first and then cache_owned(key, f)
\* on the second, with producers that do not use the maps; clear() goes to
\* both as well.

\* The caller is about to make its next call, on the CachingMap
SyncTurn ==
    /\ stack = <<>>
    /\ \/ last.op \in {"new", "cache_owned"}
       \/ last.op = "clear" /\ acache = EmptyMap

\* The caller has made a cached_cow and is about to make the cache_owned
AsyncTurn == stack = <<>> /\ last.op = "cached_cow"

\* The producer f of the cached_cow that returned last is the one given to
\* cache_owned: run on the same key, it returns what it returned there (what
\* it returns is not known if cached_cow did not run it)
Produces(kind, x) ==
    \/ last.tag = "Old"
    \/ last.tag = "Ext" /\ kind = "Borrowed" /\ x = last.arg
    \/ last.tag = "New" /\ kind = "Owned" /\ x = last.arg

NextPair ==
    \/ \E key \in Keys : SyncTurn /\ CachedCowHit(key)
    \/ \E key \in Keys : SyncTurn /\ CachedCowMiss(key)
    \/ \E e \in Values : CachedCowBorrowed(e)
    \/ \E value \in Values : CachedCowOwned(value)
    \/ AsyncTurn /\ CacheOwnedHit(last.key)
    \/ AsyncTurn /\ CacheOwnedMiss(last.key)
    \/ \E e \in Values : Produces("Borrowed", e) /\ CacheOwnedBorrowed(e)
    \/ \E value \in Values : Produces("Owned", value) /\ CacheOwnedOwned(value)
    \/ SyncTurn /\ cache # EmptyMap /\ Clear
    \/ last.op = "clear" /\ acache # EmptyMap /\ AsyncClear

SpecPair == Init /\ [][NextPair]_vars

\* ================================================================ claims

\* The step invokes a producer: one more call is on the stack, NewTop
Pushed == Len(stack') = Len(stack) + 1
NewTop == stack'[Len(stack')]

\* The step is the return of the producer of the innermost call, Top
Popped == stack # <<>> /\ stack' = Pop

\* C1: cache(k, v1) with k absent stores v1 and returns New with the stored
\* reference and value v1; cache(k, v2) with k present returns Old with the
\* stored reference, whose value is the one the insertion stored, and changes
\* neither the map nor any box.
C1_FirstWriteWins ==
    [][(last'.op = "cache" /\ Cache(last'.key, last'.arg)) =>
        LET key == last'.key
            value == last'.arg
        IN  IF get(cache, key) = None
            THEN /\ get(cache', key) # None
                 /\ heap'[cache'[key]] = value
                 /\ last'.tag = "New"
                 /\ last'.ref = StoreRef(cache'[key])
                 /\ last'.val = value
            ELSE /\ last'.tag = "Old"
                 /\ last'.ref = first[key].ref
                 /\ last'.val = first[key].val
                 /\ cache' = cache
                 /\ heap' = heap
                 /\ heap'[cache'[key]] = first[key].val]_vars

\* a second cache on a present key came back Old with the first value, not its own
C1_Witness ==
    /\ last.op = "cache"
    /\ last.tag = "Old"
    /\ last.arg # last.val
    /\ last.val = first[last.key].val

\* C2: while a key stays in the map (no remove/clear), its box is the one the
\* insertion returned, at the same address with the same contents, and every
\* reference get, cache, cached or cached_cow returns for the key is that one.
C2_ReferenceStability ==
    /\ \A k \in DOMAIN first :
        /\ get(cache, k) # None
        /\ StoreRef(cache[k]) = first[k].ref
        /\ cache[k] \in DOMAIN heap
        /\ heap[cache[k]] = first[k].val
    /\ (last.op \in {"get", "cache", "cached", "cached_cow"} /\ last.tag \in {"Some", "New", "Old"}) =>
        /\ last.key \in DOMAIN first
        /\ last.ref = first[last.key].ref
        /\ last.val = first[last.key].val

\* the first key was asked for again after every other key had been inserted
C2_Witness ==
    /\ last.tag = "Old"
    /\ DOMAIN cache = Keys
    /\ \A k \in Keys \ {last.key} : cache[k] > cache[last.key]

\* C3: cached(k, f) with k present returns the stored value as Old and invokes
\* no producer; the producer is invoked, once, only with k absent, and when
\* it returns (k still absent) its result is stored under k and returned as
\* New.
C3_Cached ==
    [][/\ (last'.op = "cached" /\ stack' = stack /\ CachedHit(last'.key)) =>
            /\ get(cache, last'.key) # None
            /\ invoked' = invoked
            /\ last'.tag = "Old"
            /\ last'.ref = first[last'.key].ref
            /\ last'.val = first[last'.key].val
            /\ cache' = cache /\ heap' = heap
       /\ (Pushed /\ NewTop.op = "cached" /\ CachedMiss(NewTop.key)) =>
            /\ get(cache, NewTop.key) = None
            /\ stack' = Append(stack, NewTop)
            /\ cache' = cache /\ heap' = heap
       /\ (Popped /\ Top.op = "cached" /\ CachedReturn(last'.arg) /\ get(cache, Top.key) = None) =>
            /\ last'.key = Top.key
            /\ last'.tag = "New"
            /\ last'.val = last'.arg
            /\ last'.ref = StoreRef(get(cache', Top.key))
            /\ heap'[cache'[Top.key]] = last'.arg]_vars

\* a cached on a key that a producer filled earlier came back Old
C3_Witness ==
    /\ last.op = "cached"
    /\ last.tag = "Old"
    /\ last.key \in invoked
    /\ stack = <<>>

\* C4: when the producer of cached_cow(k, f) returns a borrowed value, that
\* reference comes back as Ext and the step changes neither the map nor any
\* box (neither did the lookup that invoked the producer), so k is as absent
\* as before and a get(k) that follows reports None.
C4_BorrowShortCircuit ==
    [][/\ (Popped /\ Top.op = "cached_cow" /\ CachedCowBorrowed(last'.arg)) =>
            /\ last'.tag = "Ext"
            /\ last'.ref = ExtRef(last'.arg)
            /\ last'.val = last'.arg
            /\ last'.key = Top.key
            /\ cache' = cache
            /\ heap' = heap
       /\ (Pushed /\ NewTop.op = "cached_cow" /\ CachedCowMiss(NewTop.key)) =>
            (cache' = cache /\ heap' = heap)
       /\ (last.tag = "Ext" /\ last.key \notin DOMAIN first /\ last'.op = "get" /\ Get(last.key)) =>
            last'.tag = "None"]_vars

\* a borrowed value came back as Ext for a key that is absent from a map that is not empty
C4_Witness ==
    /\ last.op = "cached_cow"
    /\ last.tag = "Ext"
    /\ get(cache, last.key) = None
    /\ cache # EmptyMap

\* C5: cached_cow(k, f) with k present returns the stored value as Old and
\* invokes no producer; the producer is invoked only with k absent, and when
\* it returns an owned value v (k still absent) v is stored under k and
\* returned as New with the stored reference, and a get(k) that follows
\* returns that reference and v.
C5_CachedCowOwned ==
    [][/\ (last'.op = "cached_cow" /\ stack' = stack /\ CachedCowHit(last'.key)) =>
            /\ get(cache, last'.key) # None
            /\ invoked' = invoked
            /\ last'.tag = "Old"
            /\ last'.ref = first[last'.key].ref
            /\ last'.val = first[last'.key].val
            /\ cache' = cache /\ heap' = heap
       /\ (Pushed /\ NewTop.op = "cached_cow" /\ CachedCowMiss(NewTop.key)) =>
            /\ get(cache, NewTop.key) = None
            /\ stack' = Append(stack, NewTop)
       /\ (Popped /\ Top.op = "cached_cow" /\ CachedCowOwned(last'.arg)
                /\ get(cache, Top.key) = None) =>
            /\ last'.tag = "New"
            /\ last'.key = Top.key
            /\ last'.val = last'.arg
            /\ last'.ref = StoreRef(get(cache', Top.key))
            /\ heap'[cache'[Top.key]] = last'.arg
       /\ (last.op = "cached_cow" /\ last.tag = "New" /\ last'.op = "get" /\ Get(last.key)) =>
            /\ last'.tag = "Some"
            /\ last'.ref = last.ref
            /\ last'.val = last.arg]_vars

\* an owned result was stored by cached_cow and came back New
C5_Witness ==
    /\ last.op = "cached_cow"
    /\ last.tag = "New"
    /\ get(cache, last.key) # None
    /\ heap[cache[last.key]] = last.arg

\* C6 as claimed: between creation or the last removal of k and the next
\* removal, a producer is invoked for k at most once, so no step invokes a
\* producer for a key that one was invoked for already.
C6_AtMostOnce ==
    [][Pushed => NewTop.key \notin invoked]_vars

\* C6 as amended: a producer is invoked for k only while k is absent; once a
\* value is stored for k no step invokes a producer for k until k is removed.
C6_NotInvokedWhilePresent ==
    [][Pushed => get(cache, NewTop.key) = None]_vars

\* a cached_cow on a key that a producer filled earlier came back Old
C6_Witness ==
    /\ last.op = "cached_cow"
    /\ last.tag = "Old"
    /\ last.key \in invoked
    /\ stack = <<>>

\* C7: through the shared handle, a key that is present in the
\* AsyncCachingMap keeps its box: no step other than remove/clear changes the
\* address, the liveness or the contents of the box of a present key.
C7_AsyncNoReplace ==
    [][~AsyncExclusive =>
        \A k \in DOMAIN acache :
            /\ get(acache', k) = acache[k]
            /\ acache[k] \in DOMAIN heap'
            /\ heap'[acache[k]] = heap[acache[k]]]_vars

\* The step is the call on key that follows its removal by the exclusive
\* operation excl, and it returns: a cache, or the return of the producer of
\* a cached or cached_cow
ReturnsAfter(excl) ==
    \/ last'.op = "cache" /\ After(last'.key) = excl /\ Cache(last'.key, last'.arg)
    \/ /\ Popped
       /\ After(Top.key) = excl
       /\ \/ CachedReturn(last'.arg)
          \/ CachedCowOwned(last'.arg)
          \/ CachedCowBorrowed(last'.arg)

\* The step is a cached or cached_cow on a key that was just removed by excl
CallsAfter(excl) ==
    \/ Pushed /\ After(NewTop.key) = excl /\ (CachedMiss(NewTop.key) \/ CachedCowMiss(NewTop.key))
    \/ /\ last'.op \in {"cached", "cached_cow"}
       /\ stack' = stack
       /\ After(last'.key) = excl
       /\ (CachedHit(last'.key) \/ CachedCowHit(last'.key))

\* C8 as claimed: remove(k) leaves k absent, and the call on k that follows
\* (cache, cached or cached_cow) invokes its producer, stores the fresh value
\* and returns it as New.
C8_RemovalResets ==
    [][/\ (last'.op = "remove" /\ Remove(last'.key)) => get(cache', last'.key) = None
       /\ CallsAfter("remove") => Pushed
       /\ ReturnsAfter("remove") =>
            /\ last'.tag = "New"
            /\ last'.val = last'.arg
            /\ get(cache', last'.key) # None
            /\ heap'[cache'[last'.key]] = last'.arg]_vars

\* C8 as amended: the same, except that a cached_cow whose producer returns a
\* borrowed value returns it as Ext and stores nothing.
C8_RemovalResetsOwned ==
    [][/\ (last'.op = "remove" /\ Remove(last'.key)) =>
            (get(cache', last'.key) = None /\ last'.key \notin invoked')
       /\ CallsAfter("remove") => Pushed
       /\ ReturnsAfter("remove") =>
            IF last'.op = "cached_cow" /\ CachedCowBorrowed(last'.arg)
            THEN /\ last'.tag = "Ext"
                 /\ cache' = cache
                 /\ heap' = heap
            ELSE /\ last'.tag = "New"
                 /\ last'.val = last'.arg
                 /\ get(cache', last'.key) # None
                 /\ heap'[cache'[last'.key]] = last'.arg]_vars

\* the call after remove(k) was a cached on k, and it came back New with the producer's value
C8_Witness ==
    /\ last.op = "cached"
    /\ last.re = "remove"
    /\ last.tag = "New"
    /\ last.val = last.arg
    /\ heap[cache[last.key]] = last.arg

\* C9: clear() leaves the map empty: every key that was present is absent and
\* its box dropped, a len() that follows returns 0, a get that follows reports
\* None, and a cached(k, f) that follows invokes the producer and returns its
\* result as New.
C9_ClearEmpties ==
    [][/\ (last'.op = "clear" /\ Clear) =>
            /\ Cardinality(DOMAIN cache') = 0
            /\ \A k \in DOMAIN cache : get(cache', k) = None
            /\ \A k \in DOMAIN cache : cache[k] \notin DOMAIN heap'
       /\ (last.op = "clear" /\ last'.op = "len" /\ len) => last'.val = 0
       /\ (last.op = "clear" /\ last'.op = "get" /\ Get(last'.key)) => last'.tag = "None"
       /\ (last.op = "clear" /\ last'.op = "cached" /\ stack' = stack /\ CachedHit(last'.key)) => FALSE
       /\ (Popped /\ After(Top.key) = "clear" /\ CachedReturn(last'.arg)) =>
            /\ last'.tag = "New"
            /\ last'.val = last'.arg
            /\ heap'[cache'[Top.key]] = last'.arg]_vars

\* the call after a clear() that dropped k was a cached on k, and it came back New
C9_Witness ==
    /\ last.op = "cached"
    /\ last.re = "clear"
    /\ last.tag = "New"
    /\ Cardinality(DOMAIN cache) = 1

\* C10 as claimed: CachedValues whose references point at equal values
\* compare equal, whatever their tags.
C10_EqIgnoresTag ==
    (eq # "none" /\ Deref(lhs.ref, heap) = Deref(rhs.ref, heap)) => eq = "true"

\* C10 as amended: CachedValues compare equal exactly when they have the same
\* tag and their references point at equal values (at the same address or
\* not); with different tags they compare unequal.
C10_EqComparesTagAndValue ==
    eq # "none" =>
        /\ lhs.tag # rhs.tag => eq = "false"
        /\ (lhs.tag = rhs.tag /\ lhs.ref = rhs.ref) => eq = "true"
        /\ (lhs.tag = rhs.tag /\ Deref(lhs.ref, heap) = Deref(rhs.ref, heap)) => eq = "true"
        /\ Deref(lhs.ref, heap) # Deref(rhs.ref, heap) => eq = "false"

\* the same reference under two tags compared unequal
C10_Witness ==
    /\ eq = "false"
    /\ lhs.ref = rhs.ref
    /\ lhs.tag = "New"
    /\ rhs.tag = "Old"

\* C11: when two contexts run cache(k, .) on the same absent key, both can
\* find k absent; and whenever one of them has returned New with a reference
\* to the box it inserted and the other then inserts, that insertion replaces
\* the entry: the returned reference is no longer the stored one, and its box
\* has been dropped.
C11_RaceOverwrites ==
    [][\A t \in Contexts : \A u \in Contexts \ {t} :
        (/\ thr[t].pc = "insert"
         /\ thr[u].pc = "done" /\ thr[u].tag = "New" /\ thr[u].key = thr[t].key
         /\ thr[u].ref = Index(cache, thr[u].key)
         /\ RaceInsert(t)) =>
            /\ Index(cache', thr[t].key) # thr[u].ref
            /\ thr[u].ref[2] \notin DOMAIN heap'
            /\ Deref(Index(cache', thr[t].key), heap') = thr[t].value]_vars

\* both contexts found the key absent, one returned New with a reference to
\* its value, and the other's insertion has overwritten the entry
C11_Witness ==
    /\ thr["a"].pc = "done" /\ thr["a"].tag = "New"
    /\ thr["b"].pc \in {"index", "done"} /\ thr["b"].key = thr["a"].key
    /\ thr["b"].tag # "Old"
    /\ thr["a"].ref # Index(cache, thr["a"].key)
    /\ thr["a"].ref[2] \notin DOMAIN heap

\* C12: clone() of a CachingMap gives an empty map whatever the source
\* holds (len 0, every key absent) and leaves the source's entries and boxes
\* as they are; afterwards an insertion into the clone leaves the source
\* unchanged, an insertion into the source leaves the clone unchanged, and
\* the two maps never share a box.
C12_CloneIsNew ==
    [][/\ (last'.op = "clone" /\ Clone) =>
            /\ cloned'.made
            /\ Cardinality(DOMAIN cloned'.cache) = 0
            /\ \A k \in Keys : get(cloned'.cache, k) = None
            /\ cache' = cache
            /\ \A k \in DOMAIN cache : cache[k] \in DOMAIN heap' /\ heap'[cache[k]] = heap[cache[k]]
       /\ (last.op = "clone" /\ last'.op = "clone.len" /\ CloneLen) => last'.val = 0
       /\ (last'.op = "clone.cache" /\ CloneCache(last'.key, last'.arg)) =>
            /\ cache' = cache
            /\ \A k \in DOMAIN cache : cache[k] \in DOMAIN heap' /\ heap'[cache[k]] = heap[cache[k]]
            /\ Boxes(cloned'.cache) \cap Boxes(cache') = {}
       /\ (last'.op = "cache" /\ Cache(last'.key, last'.arg)) =>
            /\ cloned' = cloned
            /\ \A k \in DOMAIN cloned.cache :
                    cloned.cache[k] \in DOMAIN heap' /\ heap'[cloned.cache[k]] = heap[cloned.cache[k]]
            /\ Boxes(cloned'.cache) \cap Boxes(cache') = {}]_vars

\* a map that holds every key was cloned, and the clone then got a key of its
\* own with a value other than the source's
C12_Witness ==
    /\ cloned.made
    /\ DOMAIN cache = Keys
    /\ last.op = "clone.cache"
    /\ last.tag = "New"
    /\ last.val # heap[cache[last.key]]
    /\ Cardinality(DOMAIN cloned.cache) = 1

\* C13: new() and default() give an empty map with full_clone = true;
\* clone() of a map with full_clone = true gives a map with the same keys and
\* equal values in boxes of its own, clone() of a map with full_clone = false
\* gives an empty map; either way the clone has the source's flag and the
\* source (entries, boxes, flag) is unchanged.
C13_AsyncClone ==
    /\ [](last.op = "new" => (full_clone = TRUE /\ acache = EmptyMap))
    /\ [][/\ AsyncNew => (full_clone' = TRUE /\ acache' = EmptyMap)
          /\ (last'.op = "clone" /\ AsyncClone) =>
                /\ cloned'.made
                /\ cloned'.full_clone = full_clone
                /\ full_clone' = full_clone
                /\ acache' = acache
                /\ \A k \in DOMAIN acache :
                        acache[k] \in DOMAIN heap' /\ heap'[acache[k]] = heap[acache[k]]
                /\ IF full_clone
                   THEN /\ DOMAIN cloned'.cache = DOMAIN acache
                        /\ \A k \in DOMAIN acache :
                            /\ cloned'.cache[k] \in DOMAIN heap'
                            /\ heap'[cloned'.cache[k]] = heap[acache[k]]
                        /\ Boxes(cloned'.cache) \cap Boxes(acache) = {}
                        /\ Cardinality(Boxes(cloned'.cache)) = Cardinality(DOMAIN acache)
                   ELSE cloned'.cache = EmptyMap]_vars

\* a map that holds every key, with different values, was cloned in full
C13_Witness ==
    /\ last.op = "clone"
    /\ cloned.full_clone
    /\ DOMAIN acache = Keys
    /\ DOMAIN cloned.cache = Keys
    /\ \E j \in Keys, k \in Keys : heap[cloned.cache[j]] # heap[cloned.cache[k]]
    /\ Boxes(cloned.cache) \cap Boxes(acache) = {}

\* C14 as claimed: when the producer of cached(k, f) or cached_cow(k, f)
\* returns and k has been inserted in the meantime, the call returns the
\* value inserted earlier as Old and the stored value is not replaced.
C14_TieBreakOld ==
    [][(/\ Popped
        /\ get(cache, Top.key) # None
        /\ \/ CachedReturn(last'.arg)
           \/ CachedCowOwned(last'.arg)
           \/ CachedCowBorrowed(last'.arg)) =>
            /\ last'.tag = "Old"
            /\ last'.val = first[Top.key].val
            /\ cache' = cache
            /\ heap' = heap]_vars

\* C14 as amended: the same for cached and for a cached_cow whose producer
\* returns an owned value (the value is discarded); a cached_cow whose
\* producer returns a borrowed value returns it as Ext; in no case is the
\* stored value replaced.
C14_TieBreakOwned ==
    [][/\ (/\ Popped
           /\ get(cache, Top.key) # None
           /\ \/ CachedReturn(last'.arg)
              \/ CachedCowOwned(last'.arg)) =>
            /\ last'.tag = "Old"
            /\ last'.key = Top.key
            /\ last'.ref = first[Top.key].ref
            /\ last'.val = first[Top.key].val
            /\ cache' = cache
            /\ heap' = heap
       /\ (/\ Popped
           /\ get(cache, Top.key) # None
           /\ CachedCowBorrowed(last'.arg)) =>
            /\ last'.tag = "Ext"
            /\ last'.ref = ExtRef(last'.arg)
            /\ cache' = cache
            /\ heap' = heap]_vars

\* a producer returned a value for a key that was inserted while it ran, and
\* the call came back Old with the earlier value
C14_Witness ==
    /\ last.op \in {"cached", "cached_cow"}
    /\ last.tag = "Old"
    /\ last.arg # None
    /\ last.arg # last.val
    /\ last.val = first[last.key].val
    /\ stack = <<>>

\* C15: the map is created empty, and a step in which a present key goes
\* away, or in which the number of entries goes down, is a remove or a clear
\* through exclusive access (no call on the map is running); get, len, cache,
\* cached and cached_cow, and the producers they run, only ever add keys.
C15_MonotoneGrowth ==
    /\ [](last.op = "new" => cache = EmptyMap)
    /\ [][(\/ DOMAIN cache \ DOMAIN cache' # {}
           \/ Cardinality(DOMAIN cache') < Cardinality(DOMAIN cache)) =>
            /\ stack = <<>>
            /\ \/ last'.op = "remove" /\ Remove(last'.key)
               \/ last'.op = "clear" /\ Clear]_vars

\* the map was filled up while a producer was running, and len() says so
C15_Witness ==
    /\ stack # <<>>
    /\ last.op = "len"
    /\ last.val = Cardinality(Keys)
    /\ DOMAIN cache = Keys

\* C16: no call panics: the indexing &map[&key] that follows the insertion
\* in cache (directly, or on behalf of cached and cached_cow) finds the key,
\* so no result is a panic, and a call whose producer has returned is never
\* kept from completing.
C16_NoPanic ==
    /\ last.tag # "Panic"
    /\ last.ref # PanicRef
    /\ (last.op \in {"cache", "cached", "cached_cow"} /\ last.tag = "New") =>
            last.ref = Index(cache, last.key)
    /\ stack # <<>> => Cells \ DOMAIN heap # {}

\* cache, called by a running producer, inserted the last absent key and its
\* indexing found the key
C16_Witness ==
    /\ stack # <<>>
    /\ last.op = "cache"
    /\ last.tag = "New"
    /\ DOMAIN cache = Keys
    /\ last.ref = Index(cache, last.key)
    /\ last.ref # PanicRef

\* The step is one in which a call of cache, cached or cached_cow returns:
\* its result is the last one, and the step is not the lookup that invokes a
\* producer, which leaves the last result in place (every other operation
\* leaves a result of its own)
Returns ==
    /\ last'.op \in {"cache", "cached", "cached_cow"}
    /\ ~Pushed

\* C17: a call of cache, cached or cached_cow on k comes back New exactly
\* when it added the entry k, and nothing else, to the map (len grows by
\* one); when it comes back Old or Ext it leaves the map and the boxes as
\* they were; the entries and boxes of the other keys are never touched.  The
\* lookup that invokes the producer changes nothing either, so with a
\* producer that does not use the map this is the effect of the whole call.
C17_TagMatchesChange ==
    [][/\ Returns =>
            /\ last'.tag \in {"New", "Old", "Ext"}
            /\ last'.tag = "New" <=>
                    /\ last'.key \notin DOMAIN cache
                    /\ DOMAIN cache' = DOMAIN cache \cup {last'.key}
                    /\ Cardinality(DOMAIN cache') = Cardinality(DOMAIN cache) + 1
                    /\ DOMAIN heap' = DOMAIN heap \cup {cache'[last'.key]}
            /\ last'.tag \in {"Old", "Ext"} => (cache' = cache /\ heap' = heap)
            /\ \A j \in Keys \ {last'.key} :
                    /\ get(cache', j) = get(cache, j)
                    /\ j \in DOMAIN cache => heap'[cache[j]] = heap[cache[j]]
       /\ Pushed => (cache' = cache /\ heap' = heap)]_vars

\* a cached on the one absent key of a map came back New next to an entry
\* with another value
C17_Witness ==
    /\ stack = <<>>
    /\ last.op = "cached"
    /\ last.tag = "New"
    /\ last.re = ""
    /\ DOMAIN cache = Keys
    /\ \E j \in Keys \ {last.key} : heap[cache[j]] # last.val

Contents(map, hp) == [k \in DOMAIN map |-> hp[map[k]]]

\* C19: with producers that do not use the maps, cache_owned(k, f) on the
\* AsyncCachingMap returns the tag and the value that cached_cow(k, f)
\* returned on a CachingMap with equal contents, runs f exactly when
\* cached_cow did, and leaves the two maps with equal contents again.
C19_VariantsAgree ==
    [][/\ (AsyncTurn /\ CacheOwnedHit(last.key)) =>
            /\ last.tag = "Old"
            /\ last'.tag = last.tag
            /\ last'.val = last.val
            /\ Contents(acache', heap') = Contents(cache', heap')
       /\ (AsyncTurn /\ CacheOwnedMiss(last.key)) => last.tag \in {"New", "Ext"}
       /\ (Popped /\ Top.op = "cache_owned" /\ last'.op = "cache_owned") =>
            /\ last'.key = last.key
            /\ last'.tag = last.tag
            /\ last'.val = last.val
            /\ Contents(acache', heap') = Contents(cache', heap')
       /\ (last.op = "clear" /\ acache # EmptyMap /\ AsyncClear) =>
            Contents(acache', heap') = Contents(cache', heap')]_vars

\* both maps hold the same keys with the same values, one key is absent, and
\* cache_owned came back Ext for it as cached_cow did
C19_Witness ==
    /\ last.op = "cache_owned"
    /\ last.tag = "Ext"
    /\ cache # EmptyMap
    /\ Contents(acache, heap) = Contents(cache, heap)
    /\ last.key \notin DOMAIN acache
    /\ Boxes(acache) \cap Boxes(cache) = {}

====
